---- MODULE Spec2Model ----
(***************************************************************************)
(* The host-creation workflow of cmd/server-machine/machine.go:            *)
(* handlers.create and cmdCreateInner, run by an HTTP server that serves   *)
(* each /create request on its own goroutine.  The libmachine packages     *)
(* (host, api/Store, drivers, crashreport) are collaborators whose code is *)
(* not part of the source tree at hand; their behaviour is taken from the  *)
(* specification's contracts and every outcome they may report is a        *)
(* nondeterministic choice.                                                *)
(***************************************************************************)
EXTENDS Integers, Sequences, FiniteSets, TLC

\* ------------------------------------------------------------------ bounds
\* Number of /create requests served by one server process.
MaxRuns == 2

Runs == 1..MaxRuns

\* ------------------------------------------------------- request literals
\* machine.go:80-88 builds the request from literals (Name "todoname",
\* DriverName "virtualbox", StorePath "todo", the four pem paths).  The
\* specification treats these fields as the caller-supplied request, so the
\* model draws Name and DriverName from a small set of requests that contains
\* the literal one.  Names are the host names those requests use.
Names == {"todoname", "dev1", "", "-x"}

\* Drivers for which the registry has a backend (Driver Registry, spec 4.2).
RegisteredDrivers == {"virtualbox", "amazonec2"}

\* The characters of each name (TLC cannot index a string).
Chars(name) ==
  CASE name = "todoname" -> <<"t", "o", "d", "o", "n", "a", "m", "e">>
    [] name = "dev1" -> <<"d", "e", "v", "1">>
    [] name = "-x" -> <<"-", "x">>
    [] OTHER -> <<>>

AlnumChars == {"a", "d", "e", "m", "n", "o", "t", "v", "x", "1"}

\* host.ValidateHostName: non-empty, starts with an alphanumeric, continues
\* with alphanumerics, '-' or '.'.
ValidateHostName(name) ==
  LET cs == Chars(name) IN
  /\ Len(cs) > 0
  /\ cs[1] \in AlnumChars
  /\ \A i \in 2..Len(cs) : cs[i] \in AlnumChars \cup {"-", "."}

\* type createOptions, with the values cmdCreateInner gives it.
createOptions(name, driverName) ==
  [Name |-> name,
   DriverName |-> driverName,
   StorePath |-> "todo",
   CaCertPath |-> "ca.pem",
   CaPrivateKeyPath |-> "ca-key.pem",
   ClientCertPath |-> "cert.pem",
   ClientKeyPath |-> "key.pem",
   ServerCertPath |-> "",
   ServerKeyPath |-> "",
   ServerCertSANs |-> <<>>]

\* The requests served: the literal one, the same name on another driver, a
\* second name, an empty and a malformed name, and an unregistered driver.
Requests ==
  {createOptions("todoname", "virtualbox"),
   createOptions("todoname", "amazonec2"),
   createOptions("dev1", "virtualbox"),
   createOptions("", "virtualbox"),
   createOptions("-x", "amazonec2"),
   createOptions("dev1", "nodriver")}

NoOpt == createOptions("", "")

\* mcndirs.GetBaseDir()/machines and mcndirs.GetMachineCertDir().
MachinesDir == "machines"

MachineCertDir == "certs"

\* ------------------------------------------------------------------ errors
\* Go error values.  type is the dynamic type of the error; msg is the text
\* of Error() as the list of its formatted parts.
NilErr ==
  [type |-> "nil", msg |-> <<>>, Name |-> "", Cause |-> <<>>, Command |-> "",
   Context |-> "", DriverName |-> "", LogFilePath |-> <<>>]

ErrorString(text) == [NilErr EXCEPT !.type = "errorString", !.msg = <<text>>]

\* fmt.Errorf(format + "%s", e): a fresh error whose text is the prefix
\* followed by e.Error().
Errorf(prefix, e) == [NilErr EXCEPT !.type = "errorString", !.msg = <<prefix>> \o e.msg]

ErrInvalidHostname == ErrorString("Invalid hostname specified")

ErrHostAlreadyExists(name) ==
  [NilErr EXCEPT !.type = "ErrHostAlreadyExists", !.Name = name,
                 !.msg = <<"Host already exists: ", name>>]

CrashError(cause, command, context, driverName, logFilePath) ==
  [NilErr EXCEPT !.type = "CrashError", !.msg = cause.msg, !.Cause = cause.msg,
                 !.Command = command, !.Context = context,
                 !.DriverName = driverName, !.LogFilePath = logFilePath]

\* Errors the collaborators may report.
NewHostErrs == {ErrorString("unknown driver")}

StoreErrs == {ErrorString("store unavailable")}

ConfigErrs == {ErrorString("bad flag")}

CreateErrs == {ErrorString("disk full")}

SaveErrs == {ErrorString("disk full")}

\* ------------------------------------------------------------------- hosts
\* filepath.Join: the non-empty elements, in order, one path component each.
Join(elems) == SelectSeq(elems, LAMBDA e : e # "")

\* The options literal attached to the host (machine.go:109-134).
HostOptions(o) ==
  [AuthOptions |->
     [CertDir |-> MachineCertDir,
      CaCertPath |-> o.CaCertPath,
      CaPrivateKeyPath |-> o.CaPrivateKeyPath,
      ClientCertPath |-> o.ClientCertPath,
      ClientKeyPath |-> o.ClientKeyPath,
      ServerCertPath |-> o.ServerCertPath,
      ServerKeyPath |-> o.ServerKeyPath,
      StorePath |-> o.StorePath,
      ServerCertSANs |-> o.ServerCertSANs],
   EngineOptions |->
     [ArbitraryFlags |-> <<"TODO">>,
      Env |-> <<"TODO">>,
      InsecureRegistry |-> <<"TODO">>,
      Labels |-> <<"TODO">>,
      RegistryMirror |-> <<"TODO">>,
      StorageDriver |-> "TODO",
      TLSVerify |-> TRUE,
      InstallURL |-> "TODO"],
   SwarmOptions |-> [IsSwarm |-> FALSE]]

\* The options a host has when the registry hands it out, before the
\* workflow attaches its own.
DefaultHostOptions ==
  [AuthOptions |->
     [CertDir |-> "", CaCertPath |-> "", CaPrivateKeyPath |-> "",
      ClientCertPath |-> "", ClientKeyPath |-> "", ServerCertPath |-> "",
      ServerKeyPath |-> "", StorePath |-> "", ServerCertSANs |-> <<>>],
   EngineOptions |->
     [ArbitraryFlags |-> <<>>, Env |-> <<>>, InsecureRegistry |-> <<>>,
      Labels |-> <<>>, RegistryMirror |-> <<>>, StorageDriver |-> "",
      TLSVerify |-> FALSE, InstallURL |-> ""],
   SwarmOptions |-> [IsSwarm |-> FALSE]]

\* json.Marshal(&drivers.BaseDriver{MachineName, StorePath}): the object's
\* members as key/value pairs.
MarshalBaseDriver(o) == <<<<"MachineName", o.Name>>, <<"StorePath", o.StorePath>>>>

\* The value of a member of a marshalled object ("" when absent).
Member(raw, key) ==
  IF \E i \in 1..Len(raw) : raw[i][1] = key
  THEN raw[CHOOSE i \in 1..Len(raw) : raw[i][1] = key][2]
  ELSE ""

\* api.NewHost on success: a host bound to the named driver, its base fields
\* deserialized from rawDriver.
NewHostValue(driverName, rawDriver) ==
  [Name |-> Member(rawDriver, "MachineName"),
   DriverName |-> driverName,
   Driver |-> [MachineName |-> Member(rawDriver, "MachineName"),
               StorePath |-> Member(rawDriver, "StorePath"),
               configured |-> FALSE],
   HostOptions |-> DefaultHostOptions]

NoHost == NewHostValue("", <<>>)

\* The candidate log path of machine.go:159-162.
VBoxLogPath(host) ==
  IF host.DriverName = "virtualbox"
  THEN Join(<<MachinesDir, host.Name, host.Name, "Logs", "VBox.log">>)
  ELSE <<>>

\* One entry of a run's call log: the operation, whether it returned without
\* error, the boolean it returned (Exists), the error it returned, and the
\* host the run held when the call returned.
Call(op, ok, val, e, host) == [op |-> op, ok |-> ok, val |-> val, err |-> e, h |-> host]

\* ------------------------------------------------------------------- state
VARIABLES
  alive,     \* the server process is running (log.Fatal has not exited it)
  pc,        \* per run: the position of its goroutine
  opt,       \* per run: the createOptions of cmdCreateInner
  h,         \* per run: the host returned by api.NewHost
  err,       \* per run: the error in hand (the value cmdCreateInner returns)
  calls,     \* per run: the log of its Store, Driver and timer calls
  resp,      \* per run: what has been written to the http.ResponseWriter
  closed,    \* per run: api.Close() has run
  store,     \* the shared Store: host name -> saved host (NoHost: none)
  fs,        \* the backend log files that exist
  sshClient, \* the process-wide default SSH client type
  cancelledAt \* per run: where the run stood when the caller cancelled its
             \* request ("none": not cancelled)

vars == <<alive, pc, opt, h, err, calls, resp, closed, store, fs, sshClient, cancelledAt>>

HostNames == {n \in Names : ValidateHostName(n)}

Init ==
  /\ alive = TRUE
  /\ pc = [r \in Runs |-> "idle"]
  /\ opt = [r \in Runs |-> NoOpt]
  /\ h = [r \in Runs |-> NoHost]
  /\ err = [r \in Runs |-> NilErr]
  /\ calls = [r \in Runs |-> <<>>]
  /\ resp = [r \in Runs |-> "none"]
  /\ closed = [r \in Runs |-> FALSE]
  /\ store = [n \in HostNames |-> NoHost]
  /\ fs = {}
  /\ sshClient = "unset"
  /\ cancelledAt = [r \in Runs |-> "none"]

\* Store.Exists as the Store answers it.
StoreExists(name) == name \in DOMAIN store /\ store[name] # NoHost

\* cmdCreateInner returns e.
Return(r, e) ==
  /\ pc' = [pc EXCEPT ![r] = "ret"]
  /\ err' = [err EXCEPT ![r] = e]

Logged(r, c) == calls' = [calls EXCEPT ![r] = Append(@, c)]

\* ----------------------------------------------------------------- actions
\* handlers.create up to the call of cmdCreateInner, and the request literal
\* of cmdCreateInner.
create(r) ==
  /\ alive
  /\ pc[r] = "idle"
  /\ \E o \in Requests : opt' = [opt EXCEPT ![r] = o]
  /\ sshClient' = "external"
  /\ pc' = [pc EXCEPT ![r] = "validate"]
  /\ UNCHANGED <<alive, h, err, calls, resp, closed, store, fs, cancelledAt>>

\* Validate without the early return of machine.go:91-93.
Validate_Unchecked(r) ==
  /\ alive
  /\ pc[r] = "validate"
  /\ pc' = [pc EXCEPT ![r] = "newhost"]
  /\ UNCHANGED <<alive, opt, h, err, calls, resp, closed, store, fs, sshClient, cancelledAt>>

\* machine.go:90-93.
Validate(r) ==
  /\ alive
  /\ pc[r] = "validate"
  /\ IF ~ValidateHostName(opt[r].Name)
     THEN Return(r, Errorf("Error creating machine: ", ErrInvalidHostname))
     ELSE pc' = [pc EXCEPT ![r] = "newhost"] /\ UNCHANGED err
  /\ UNCHANGED <<alive, opt, h, calls, resp, closed, store, fs, sshClient, cancelledAt>>

\* NewHost followed at once by the driver configuration, the existence
\* check of machine.go:136-144 left out.
NewHost_SkipsExistenceCheck(r) ==
  /\ alive
  /\ pc[r] = "newhost"
  /\ LET rawDriver == MarshalBaseDriver(opt[r]) IN
     IF opt[r].DriverName \in RegisteredDrivers
     THEN /\ h' = [h EXCEPT ![r] = [NewHostValue(opt[r].DriverName, rawDriver)
                                      EXCEPT !.HostOptions = HostOptions(opt[r])]]
          /\ Logged(r, Call("NewHost", TRUE, FALSE, NilErr, h'[r]))
          /\ pc' = [pc EXCEPT ![r] = "setconfig"]
          /\ UNCHANGED err
     ELSE /\ \E e \in NewHostErrs :
               /\ Return(r, Errorf("Error getting new host: ", e))
               /\ Logged(r, Call("NewHost", FALSE, FALSE, e, NoHost))
          /\ UNCHANGED h
  /\ UNCHANGED <<alive, opt, resp, closed, store, fs, sshClient, cancelledAt>>

\* NewHost without the assignment of machine.go:109-134.
NewHost_OptionsNotAttached(r) ==
  /\ alive
  /\ pc[r] = "newhost"
  /\ LET rawDriver == MarshalBaseDriver(opt[r]) IN
     IF opt[r].DriverName \in RegisteredDrivers
     THEN /\ h' = [h EXCEPT ![r] = NewHostValue(opt[r].DriverName, rawDriver)]
          /\ Logged(r, Call("NewHost", TRUE, FALSE, NilErr, h'[r]))
          /\ pc' = [pc EXCEPT ![r] = "exists"]
          /\ UNCHANGED err
     ELSE /\ \E e \in NewHostErrs :
               /\ Return(r, Errorf("Error getting new host: ", e))
               /\ Logged(r, Call("NewHost", FALSE, FALSE, e, NoHost))
          /\ UNCHANGED h
  /\ UNCHANGED <<alive, opt, resp, closed, store, fs, sshClient, cancelledAt>>

\* machine.go:96-134: marshal the base driver, api.NewHost, attach the options.
NewHost(r) ==
  /\ alive
  /\ pc[r] = "newhost"
  /\ LET rawDriver == MarshalBaseDriver(opt[r]) IN
     IF opt[r].DriverName \in RegisteredDrivers
     THEN /\ h' = [h EXCEPT ![r] = [NewHostValue(opt[r].DriverName, rawDriver)
                                      EXCEPT !.HostOptions = HostOptions(opt[r])]]
          /\ Logged(r, Call("NewHost", TRUE, FALSE, NilErr, h'[r]))
          /\ pc' = [pc EXCEPT ![r] = "exists"]
          /\ UNCHANGED err
     ELSE /\ \E e \in NewHostErrs :
               /\ Return(r, Errorf("Error getting new host: ", e))
               /\ Logged(r, Call("NewHost", FALSE, FALSE, e, NoHost))
          /\ UNCHANGED h
  /\ UNCHANGED <<alive, opt, resp, closed, store, fs, sshClient, cancelledAt>>

\* Exists without the return of machine.go:140-144.
Exists_ResultIgnored(r) ==
  /\ alive
  /\ pc[r] = "exists"
  /\ \/ \E e \in StoreErrs :
          /\ Return(r, Errorf("Error checking if host exists: ", e))
          /\ Logged(r, Call("Exists", FALSE, FALSE, e, h[r]))
     \/ /\ Logged(r, Call("Exists", TRUE, StoreExists(h[r].Name), NilErr, h[r]))
        /\ pc' = [pc EXCEPT ![r] = "setconfig"]
        /\ UNCHANGED err
  /\ UNCHANGED <<alive, opt, h, resp, closed, store, fs, sshClient, cancelledAt>>

\* Exists behind a per-name lock: the check waits while another run that
\* passed the check for the same name has not yet saved.
Exists_Locked(r) ==
  /\ alive
  /\ pc[r] = "exists"
  /\ ~\E q \in Runs \ {r} :
        pc[q] \in {"setconfig", "create", "save"} /\ h[q].Name = h[r].Name
  /\ \/ \E e \in StoreErrs :
          /\ Return(r, Errorf("Error checking if host exists: ", e))
          /\ Logged(r, Call("Exists", FALSE, FALSE, e, h[r]))
     \/ /\ Logged(r, Call("Exists", TRUE, StoreExists(h[r].Name), NilErr, h[r]))
        /\ IF StoreExists(h[r].Name)
           THEN Return(r, ErrHostAlreadyExists(h[r].Name))
           ELSE pc' = [pc EXCEPT ![r] = "setconfig"] /\ UNCHANGED err
  /\ UNCHANGED <<alive, opt, h, resp, closed, store, fs, sshClient, cancelledAt>>

\* machine.go:136-144.
Exists(r) ==
  /\ alive
  /\ pc[r] = "exists"
  /\ \/ \E e \in StoreErrs :
          /\ Return(r, Errorf("Error checking if host exists: ", e))
          /\ Logged(r, Call("Exists", FALSE, FALSE, e, h[r]))
     \/ /\ Logged(r, Call("Exists", TRUE, StoreExists(h[r].Name), NilErr, h[r]))
        /\ IF StoreExists(h[r].Name)
           THEN Return(r, ErrHostAlreadyExists(h[r].Name))
           ELSE pc' = [pc EXCEPT ![r] = "setconfig"] /\ UNCHANGED err
  /\ UNCHANGED <<alive, opt, h, resp, closed, store, fs, sshClient, cancelledAt>>

\* SetConfigFromFlags called for the virtualbox driver only.
SetConfigFromFlags_VirtualBoxOnly(r) ==
  /\ alive
  /\ pc[r] = "setconfig"
  /\ IF h[r].DriverName # "virtualbox"
     THEN /\ pc' = [pc EXCEPT ![r] = "create"]
          /\ UNCHANGED <<h, err, calls>>
     ELSE \/ /\ \E e \in ConfigErrs :
                  /\ Return(r, Errorf("Error setting machine configuration from flags provided: ", e))
                  /\ Logged(r, Call("SetConfigFromFlags", FALSE, FALSE, e, h[r]))
             /\ UNCHANGED h
          \/ /\ h' = [h EXCEPT ![r].Driver.configured = TRUE]
             /\ Logged(r, Call("SetConfigFromFlags", TRUE, FALSE, NilErr, h'[r]))
             /\ pc' = [pc EXCEPT ![r] = "create"]
             /\ UNCHANGED err
  /\ UNCHANGED <<alive, opt, resp, closed, store, fs, sshClient, cancelledAt>>

\* SetConfigFromFlags with the error of machine.go:151 dropped.
SetConfigFromFlags_ErrorDropped(r) ==
  /\ alive
  /\ pc[r] = "setconfig"
  /\ \/ /\ \E e \in ConfigErrs :
             Logged(r, Call("SetConfigFromFlags", FALSE, FALSE, e, h[r]))
        /\ UNCHANGED h
     \/ /\ h' = [h EXCEPT ![r].Driver.configured = TRUE]
        /\ Logged(r, Call("SetConfigFromFlags", TRUE, FALSE, NilErr, h'[r]))
  /\ pc' = [pc EXCEPT ![r] = "create"]
  /\ UNCHANGED <<alive, opt, err, resp, closed, store, fs, sshClient, cancelledAt>>

\* machine.go:149-153.
SetConfigFromFlags(r) ==
  /\ alive
  /\ pc[r] = "setconfig"
  /\ \/ /\ \E e \in ConfigErrs :
             /\ Return(r, Errorf("Error setting machine configuration from flags provided: ", e))
             /\ Logged(r, Call("SetConfigFromFlags", FALSE, FALSE, e, h[r]))
        /\ UNCHANGED h
     \/ /\ h' = [h EXCEPT ![r].Driver.configured = TRUE]
        /\ Logged(r, Call("SetConfigFromFlags", TRUE, FALSE, NilErr, h'[r]))
        /\ pc' = [pc EXCEPT ![r] = "create"]
        /\ UNCHANGED err
  /\ UNCHANGED <<alive, opt, resp, closed, store, fs, sshClient, cancelledAt>>

\* Create tried a second time after a first failure.
Create_Retried(r) ==
  /\ alive
  /\ pc[r] = "create"
  /\ \/ /\ \E e \in CreateErrs :
             /\ err' = [err EXCEPT ![r] = e]
             /\ Logged(r, Call("Create", FALSE, FALSE, e, h[r]))
        /\ pc' = [pc EXCEPT ![r] = IF calls[r][Len(calls[r])].op = "Create"
                                    THEN "sleep" ELSE "create"]
     \/ /\ Logged(r, Call("Create", TRUE, FALSE, NilErr, h[r]))
        /\ pc' = [pc EXCEPT ![r] = "save"]
        /\ UNCHANGED err
  /\ UNCHANGED <<alive, opt, h, resp, closed, store, fs, sshClient, cancelledAt>>

\* Create that looks at the request's cancellation first and gives up with
\* an error of its own kind when the caller has cancelled.
Create_ChecksContext(r) ==
  /\ alive
  /\ pc[r] = "create"
  /\ IF cancelledAt[r] # "none"
     THEN /\ Return(r, [NilErr EXCEPT !.type = "Cancelled", !.msg = <<"context canceled">>])
          /\ UNCHANGED <<calls, fs>>
     ELSE \/ /\ \E e \in CreateErrs :
                  /\ err' = [err EXCEPT ![r] = e]
                  /\ Logged(r, Call("Create", FALSE, FALSE, e, h[r]))
             /\ pc' = [pc EXCEPT ![r] = "sleep"]
             /\ UNCHANGED fs
          \/ /\ Logged(r, Call("Create", TRUE, FALSE, NilErr, h[r]))
             /\ pc' = [pc EXCEPT ![r] = "save"]
             /\ UNCHANGED <<err, fs>>
  /\ UNCHANGED <<alive, opt, h, resp, closed, store, sshClient, cancelledAt>>

\* Create with the error of machine.go:155 dropped: the run goes on to Save.
Create_ErrorDropped(r) ==
  /\ alive
  /\ pc[r] = "create"
  /\ \/ \E e \in CreateErrs : Logged(r, Call("Create", FALSE, FALSE, e, h[r]))
     \/ Logged(r, Call("Create", TRUE, FALSE, NilErr, h[r]))
  /\ pc' = [pc EXCEPT ![r] = "save"]
  /\ UNCHANGED <<alive, opt, h, err, resp, closed, store, fs, sshClient, cancelledAt>>

\* machine.go:155: api.Create(h).  A failing virtualbox backend may or may not
\* have written its VBox.log.
Create(r) ==
  /\ alive
  /\ pc[r] = "create"
  /\ \/ /\ \E e \in CreateErrs :
             /\ err' = [err EXCEPT ![r] = e]
             /\ Logged(r, Call("Create", FALSE, FALSE, e, h[r]))
        /\ pc' = [pc EXCEPT ![r] = "sleep"]
        /\ \E wrote \in BOOLEAN :
             fs' = IF wrote /\ h[r].DriverName = "virtualbox"
                   THEN fs \cup {VBoxLogPath(h[r])}
                   ELSE fs
     \/ /\ Logged(r, Call("Create", TRUE, FALSE, NilErr, h[r]))
        /\ pc' = [pc EXCEPT ![r] = "save"]
        /\ UNCHANGED <<err, fs>>
  /\ UNCHANGED <<alive, opt, h, resp, closed, store, sshClient, cancelledAt>>

\* The wait as a polling loop: a second sleep may follow the first.
GraceWait_Polls(r) ==
  /\ alive
  /\ pc[r] = "sleep"
  /\ Logged(r, Call("Sleep", TRUE, FALSE, NilErr, h[r]))
  /\ \/ pc' = [pc EXCEPT ![r] = "report"]
     \/ calls[r][Len(calls[r])].op # "Sleep" /\ UNCHANGED pc
  /\ UNCHANGED <<alive, opt, h, err, resp, closed, store, fs, sshClient, cancelledAt>>

\* machine.go:157: time.Sleep(2 * time.Second).
GraceWait(r) ==
  /\ alive
  /\ pc[r] = "sleep"
  /\ Logged(r, Call("Sleep", TRUE, FALSE, NilErr, h[r]))
  /\ pc' = [pc EXCEPT ![r] = "report"]
  /\ UNCHANGED <<alive, opt, h, err, resp, closed, store, fs, sshClient, cancelledAt>>

\* ReportFailure that keeps the candidate path only if the file exists.
ReportFailure_ChecksArtifact(r) ==
  /\ alive
  /\ pc[r] = "report"
  /\ LET path == Join(<<MachinesDir, h[r].Name, h[r].Name, "Logs", "VBox.log">>)
         vBoxLog == IF h[r].DriverName = "virtualbox" /\ path \in fs THEN path ELSE <<>>
     IN Return(r, CrashError(err[r], "Create", "api.performCreate", h[r].DriverName, vBoxLog))
  /\ UNCHANGED <<alive, opt, h, calls, resp, closed, store, fs, sshClient, cancelledAt>>

\* ReportFailure with the driver name written as a literal.
ReportFailure_LiteralDriver(r) ==
  /\ alive
  /\ pc[r] = "report"
  /\ LET vBoxLog == IF h[r].DriverName = "virtualbox"
                    THEN Join(<<MachinesDir, h[r].Name, h[r].Name, "Logs", "VBox.log">>)
                    ELSE <<>>
     IN Return(r, CrashError(err[r], "Create", "api.performCreate", "virtualbox", vBoxLog))
  /\ UNCHANGED <<alive, opt, h, calls, resp, closed, store, fs, sshClient, cancelledAt>>

\* ReportFailure that records the half-created host before returning.
ReportFailure_SavesHost(r) ==
  /\ alive
  /\ pc[r] = "report"
  /\ LET vBoxLog == IF h[r].DriverName = "virtualbox"
                    THEN Join(<<MachinesDir, h[r].Name, h[r].Name, "Logs", "VBox.log">>)
                    ELSE <<>>
     IN Return(r, CrashError(err[r], "Create", "api.performCreate", h[r].DriverName, vBoxLog))
  /\ store' = [store EXCEPT ![h[r].Name] = h[r]]
  /\ UNCHANGED <<alive, opt, h, calls, resp, closed, fs, sshClient, cancelledAt>>

\* machine.go:159-170.
ReportFailure(r) ==
  /\ alive
  /\ pc[r] = "report"
  /\ LET vBoxLog == IF h[r].DriverName = "virtualbox"
                    THEN Join(<<MachinesDir, h[r].Name, h[r].Name, "Logs", "VBox.log">>)
                    ELSE <<>>
     IN Return(r, CrashError(err[r], "Create", "api.performCreate", h[r].DriverName, vBoxLog))
  /\ UNCHANGED <<alive, opt, h, calls, resp, closed, store, fs, sshClient, cancelledAt>>

\* Save with its error dropped: the run returns nil either way.
Save_ErrorDropped(r) ==
  /\ alive
  /\ pc[r] = "save"
  /\ \/ /\ \E e \in SaveErrs : Logged(r, Call("Save", FALSE, FALSE, e, h[r]))
        /\ UNCHANGED store
     \/ /\ store' = [store EXCEPT ![h[r].Name] = h[r]]
        /\ Logged(r, Call("Save", TRUE, FALSE, NilErr, h[r]))
  /\ Return(r, NilErr)
  /\ UNCHANGED <<alive, opt, h, resp, closed, fs, sshClient, cancelledAt>>

\* Save whose failure is returned as a crash report.
Save_FailureAsCrash(r) ==
  /\ alive
  /\ pc[r] = "save"
  /\ \/ /\ \E e \in SaveErrs :
             /\ Return(r, CrashError(e, "Create", "api.performCreate", h[r].DriverName, <<>>))
             /\ Logged(r, Call("Save", FALSE, FALSE, e, h[r]))
        /\ UNCHANGED store
     \/ /\ store' = [store EXCEPT ![h[r].Name] = h[r]]
        /\ Logged(r, Call("Save", TRUE, FALSE, NilErr, h[r]))
        /\ Return(r, NilErr)
  /\ UNCHANGED <<alive, opt, h, resp, closed, fs, sshClient, cancelledAt>>

\* machine.go:173-179: api.Save(h).
Save(r) ==
  /\ alive
  /\ pc[r] = "save"
  /\ \/ /\ \E e \in SaveErrs :
             /\ Return(r, Errorf("Error attempting to save store: ", e))
             /\ Logged(r, Call("Save", FALSE, FALSE, e, h[r]))
        /\ UNCHANGED store
     \/ /\ store' = [store EXCEPT ![h[r].Name] = h[r]]
        /\ Logged(r, Call("Save", TRUE, FALSE, NilErr, h[r]))
        /\ Return(r, NilErr)
  /\ UNCHANGED <<alive, opt, h, resp, closed, fs, sshClient, cancelledAt>>

\* machine.go:45-47: cmdCreateInner returned an error; log.Fatal exits the
\* process (no response is written, deferred calls do not run).
Fatal(r) ==
  /\ alive
  /\ pc[r] = "ret"
  /\ err[r] # NilErr
  /\ alive' = FALSE
  /\ pc' = [pc EXCEPT ![r] = "fatal"]
  /\ UNCHANGED <<opt, h, err, calls, resp, closed, store, fs, sshClient, cancelledAt>>

\* machine.go:49 and the deferred api.Close() of line 42.
Respond(r) ==
  /\ alive
  /\ pc[r] = "ret"
  /\ err[r] = NilErr
  /\ resp' = [resp EXCEPT ![r] = "ok"]
  /\ closed' = [closed EXCEPT ![r] = TRUE]
  /\ pc' = [pc EXCEPT ![r] = "done"]
  /\ UNCHANGED <<alive, opt, h, err, calls, store, fs, sshClient, cancelledAt>>

Next ==
  \E r \in Runs :
    \/ create(r)
    \/ Validate(r)
    \/ NewHost(r)
    \/ Exists(r)
    \/ SetConfigFromFlags(r)
    \/ Create(r)
    \/ GraceWait(r)
    \/ ReportFailure(r)
    \/ Save(r)
    \/ Fatal(r)
    \/ Respond(r)

Spec == Init /\ [][Next]_vars

\* ------------------------------------------------- sequential submissions
\* A request submitted when no other request is being served.
Submit(r) ==
  /\ \A q \in Runs \ {r} : pc[q] \in {"idle", "fatal", "done"}
  /\ create(r)

\* The caller of run r cancels its request while cmdCreateInner is running.
\* handlers.create never reads r.Context(), so nothing but the record of the
\* cancellation changes.
Cancel(r) ==
  /\ alive
  /\ pc[r] \in {"validate", "newhost", "exists", "setconfig", "create", "sleep",
               "report", "save"}
  /\ cancelledAt[r] = "none"
  /\ cancelledAt' = [cancelledAt EXCEPT ![r] = pc[r]]
  /\ UNCHANGED <<alive, pc, opt, h, err, calls, resp, closed, store, fs, sshClient>>

\* The server is started again after log.Fatal has exited it (main); the
\* Store on disk is as the last process left it.
Restart ==
  /\ ~alive
  /\ alive' = TRUE
  /\ sshClient' = "unset"
  /\ UNCHANGED <<pc, opt, h, err, calls, resp, closed, store, fs, cancelledAt>>

NextSeq ==
  \/ \E r \in Runs :
       \/ Submit(r)
       \/ Validate(r)
       \/ NewHost(r)
       \/ Exists(r)
       \/ SetConfigFromFlags(r)
       \/ Create(r)
       \/ GraceWait(r)
       \/ ReportFailure(r)
       \/ Save(r)
       \/ Fatal(r)
       \/ Respond(r)
  \/ Restart

\* One request at a time, the server restarted after each fatal exit.
SpecSeq == Init /\ [][NextSeq]_vars

NextCancel ==
  \E r \in Runs :
    \/ Submit(r)
    \/ Validate(r)
    \/ NewHost(r)
    \/ Exists(r)
    \/ SetConfigFromFlags(r)
    \/ Create(r)
    \/ GraceWait(r)
    \/ ReportFailure(r)
    \/ Save(r)
    \/ Fatal(r)
    \/ Respond(r)
    \/ Cancel(r)

\* One request at a time, each of which its caller may cancel.
SpecCancel == Init /\ [][NextCancel]_vars

\* ------------------------------------------------------------ observations
\* cmdCreateInner has returned in run r.
Returned(r) == pc[r] \in {"ret", "fatal", "done"}

Started(r) == pc[r] # "idle"

\* The entries of run r's call log for operation op.
CallsOf(r, op) == SelectSeq(calls[r], LAMBDA c : c.op = op)

Count(r, op) == Len(CallsOf(r, op))

Succeeded(r, op) == \E i \in 1..Len(calls[r]) : calls[r][i].op = op /\ calls[r][i].ok

Failed(r, op) == \E i \in 1..Len(calls[r]) : calls[r][i].op = op /\ ~calls[r][i].ok

\* api.Exists returned true in run r.
ExistsTrue(r) ==
  \E i \in 1..Len(calls[r]) :
    calls[r][i].op = "Exists" /\ calls[r][i].ok /\ calls[r][i].val

ApiOps == {"NewHost", "Exists", "SetConfigFromFlags", "Create", "Save"}

\* ------------------------------------------------------------------ claims
\* C1: a run whose request name fails validation makes no Store or Driver
\* call at all (NewHost, Exists, SetConfigFromFlags, Create, Save: 0 calls
\* each), goes from validation straight to its return, and returns the
\* invalid-hostname error.
C1_InvalidNameFailsFast ==
  \A r \in Runs :
    (Started(r) /\ ~ValidateHostName(opt[r].Name)) =>
      /\ \A op \in ApiOps : Count(r, op) = 0
      /\ pc[r] = "validate" \/ Returned(r)
      /\ Returned(r) => err[r] = Errorf("Error creating machine: ", ErrInvalidHostname)

C1_Witness ==
  \E r \in Runs :
    /\ Returned(r)
    /\ ~ValidateHostName(opt[r].Name)
    /\ err[r].msg = <<"Error creating machine: ", "Invalid hostname specified">>

\* C2: once api.Exists has returned true in a run, the run has returned
\* ErrHostAlreadyExists carrying the name it asked about, and
\* SetConfigFromFlags, Create and Save have 0 calls in that run.
C2_ExistingHostStopsRun ==
  \A r \in Runs :
    ExistsTrue(r) =>
      /\ Returned(r)
      /\ err[r] = ErrHostAlreadyExists(opt[r].Name)
      /\ err[r].Name = CallsOf(r, "Exists")[1].h.Name
      /\ Count(r, "SetConfigFromFlags") = 0
      /\ Count(r, "Create") = 0
      /\ Count(r, "Save") = 0

C2_Witness ==
  \E r \in Runs :
    /\ ExistsTrue(r)
    /\ Returned(r)
    /\ err[r].type = "ErrHostAlreadyExists"
    /\ err[r].Name = "dev1"

\* C3: once SetConfigFromFlags has returned an error in a run, the run has
\* returned the configuration error wrapping it, and Create and Save have 0
\* calls in that run.
C3_ConfigErrorStopsRun ==
  \A r \in Runs :
    Failed(r, "SetConfigFromFlags") =>
      /\ Returned(r)
      /\ err[r] = Errorf("Error setting machine configuration from flags provided: ",
                          CallsOf(r, "SetConfigFromFlags")[1].err)
      /\ Count(r, "Create") = 0
      /\ Count(r, "Save") = 0

C3_Witness ==
  \E r \in Runs :
    /\ Failed(r, "SetConfigFromFlags")
    /\ Returned(r)
    /\ err[r].type = "errorString"
    /\ Count(r, "Exists") = 1

\* C4: Save is never called more than once in a run; a run that has returned
\* after a successful Create has called Save exactly once; and the host every
\* Save receives carries the options built from the run's request, the same
\* options the host carried at the existence check.
C4_SaveOnceWithBuiltOptions ==
  \A r \in Runs :
    /\ Count(r, "Save") <= 1
    /\ (Returned(r) /\ Succeeded(r, "Create")) => Count(r, "Save") = 1
    /\ Count(r, "Save") = 1 =>
         /\ Succeeded(r, "Create")
         /\ CallsOf(r, "Save")[1].h.HostOptions = HostOptions(opt[r])
         /\ CallsOf(r, "Save")[1].h.HostOptions = CallsOf(r, "Exists")[1].h.HostOptions
         /\ CallsOf(r, "Save")[1].h.HostOptions.AuthOptions.CaCertPath = opt[r].CaCertPath
         /\ CallsOf(r, "Save")[1].h.HostOptions.AuthOptions.StorePath = opt[r].StorePath

C4_Witness ==
  \E r \in Runs :
    /\ Returned(r)
    /\ Succeeded(r, "Create")
    /\ Count(r, "Save") = 1
    /\ CallsOf(r, "Save")[1].h.HostOptions.EngineOptions.TLSVerify

\* C5 as stated: when a run has returned, the Store holds a record for the
\* request's host if and only if Create succeeded in that run.
C5_AsStated ==
  \A r \in Runs :
    Returned(r) => (StoreExists(opt[r].Name) <=> Succeeded(r, "Create"))

\* C5 amended: when a run has returned, it has saved a record for its host
\* if and only if Create succeeded and the Save after it did not fail; a run
\* that saved leaves the Store holding a record under its host's name, and a
\* run whose Create did not succeed has not called Save.
C5_SavedIffCreatedAndSaved ==
  \A r \in Runs :
    Returned(r) =>
      /\ Succeeded(r, "Save") <=> (Succeeded(r, "Create") /\ ~Failed(r, "Save"))
      /\ Succeeded(r, "Save") => StoreExists(opt[r].Name)
      /\ ~Succeeded(r, "Create") => Count(r, "Save") = 0

C5_Witness ==
  \E r \in Runs :
    /\ Returned(r)
    /\ Succeeded(r, "Create")
    /\ Failed(r, "Save")
    /\ ~StoreExists(opt[r].Name)

\* C6: a step changes the Store only if it is the Save call of a run whose
\* Create succeeded, and then it writes that run's host under its name; a
\* run whose Create failed never reaches Save, and none of its steps changes
\* the Store.
C6_FailedCreateWritesNothing ==
  [][\A r \in Runs :
       /\ (pc'[r] # pc[r] /\ store' # store) =>
            /\ pc[r] = "save"
            /\ Succeeded(r, "Create")
            /\ store' = [store EXCEPT ![h[r].Name] = h[r]]
       /\ (pc'[r] # pc[r] /\ Failed(r, "Create")) =>
            /\ store' = store
            /\ pc'[r] # "save"
            /\ Count(r, "Save") = 0]_vars

C6_Witness ==
  \E r \in Runs :
    /\ Returned(r)
    /\ Failed(r, "Create")
    /\ Count(r, "Save") = 0
    /\ \A n \in HostNames : store[n] = NoHost

\* C7: once Save has returned an error in a run, the run has returned (after
\* a successful Create) the save error wrapping it, which is not a
\* CrashError and differs in type and in text from what any run returns
\* after a failed Create.
C7_PersistFailureDistinct ==
  \A r \in Runs :
    Failed(r, "Save") =>
      /\ Returned(r)
      /\ Succeeded(r, "Create")
      /\ err[r] = Errorf("Error attempting to save store: ", CallsOf(r, "Save")[1].err)
      /\ err[r].type # "CrashError"
      /\ \A q \in Runs :
           (Returned(q) /\ Failed(q, "Create")) =>
             /\ err[q].type = "CrashError"
             /\ err[q].type # err[r].type
             /\ err[q].msg # err[r].msg

C7_Witness ==
  \E r, q \in Runs :
    /\ Failed(r, "Save")
    /\ Returned(r)
    /\ Returned(q)
    /\ Failed(q, "Create")
    /\ CallsOf(q, "Create")[1].err = CallsOf(r, "Save")[1].err

C9_CrashReportCauseAndDriver ==
  \A r \in Runs :
    (Returned(r) /\ Failed(r, "Create")) =>
      /\ err[r].type = "CrashError"
      /\ err[r].Cause = CallsOf(r, "Create")[1].err.msg
      /\ err[r].DriverName = opt[r].DriverName
      /\ err[r].Command = "Create"

C9_Witness ==
  \E r \in Runs :
    /\ Returned(r)
    /\ Failed(r, "Create")
    /\ opt[r].DriverName = "amazonec2"
    /\ err[r].DriverName = "amazonec2"
    /\ err[r].Cause = <<"disk full">>

\* Run r has passed the existence check and has not yet called Save.
InWindow(r) == pc[r] \in {"setconfig", "create", "save"}

\* C10: while one run is between its existence check and its Save, a second
\* run asking about the same name, not yet in the Store, can pass the
\* existence check too: nothing makes it wait for the first.
C10_CheckThenSaveNotAtomic ==
  \A r, q \in Runs :
    (/\ r # q
     /\ alive
     /\ InWindow(r)
     /\ pc[q] = "exists"
     /\ h[q].Name = h[r].Name
     /\ ~StoreExists(h[q].Name)) =>
      ENABLED (Exists(q) /\ pc'[q] = "setconfig")

\* Both runs passed the check before either saved, and both went on to
\* Create and Save the same name.
C10_Witness ==
  \E r, q \in Runs :
    /\ r # q
    /\ opt[r].Name = opt[q].Name
    /\ Succeeded(r, "Create") /\ Succeeded(q, "Create")
    /\ Succeeded(r, "Save") /\ Succeeded(q, "Save")
    /\ \A x \in {r, q} : CallsOf(x, "Exists")[1].ok /\ ~CallsOf(x, "Exists")[1].val

\* ------------------------------------------------------ further observations
\* The taxonomy member (spec section 7) an error value stands for.
Kind(e) ==
  CASE e.type = "nil" -> "Done"
    [] e.type = "ErrHostAlreadyExists" -> "HostAlreadyExists"
    [] e.type = "CrashError" -> "CreationFailed"
    [] e.type = "errorString" /\ e.msg[1] = "Error creating machine: " -> "InvalidIdentity"
    [] e.type = "errorString" /\ e.msg[1] = "Error getting new host: " -> "UnknownDriver"
    [] e.type = "errorString" /\ e.msg[1] = "Error checking if host exists: " -> "StoreUnavailable"
    [] e.type = "errorString"
         /\ e.msg[1] = "Error setting machine configuration from flags provided: " -> "ConfigRejected"
    [] e.type = "errorString" /\ e.msg[1] = "Error attempting to save store: " -> "PersistFailed"
    [] OTHER -> "Unclassified"

\* A step of cmdCreateInner in run r.
WorkflowStep(r) ==
  \/ Validate(r)
  \/ NewHost(r)
  \/ Exists(r)
  \/ SetConfigFromFlags(r)
  \/ Create(r)
  \/ GraceWait(r)
  \/ ReportFailure(r)
  \/ Save(r)

\* The handler of run r has been entered and has not finished.
InFlight(r) == pc[r] \notin {"idle", "fatal", "done"}

\* C11: whatever another request with a different host name has done, a
\* request in flight can take its own next step: go on with its workflow or,
\* once the workflow has returned, have its handler answer.
C11_AsStated ==
  \A r, q \in Runs :
    (r # q /\ Started(r) /\ InFlight(q) /\ opt[r].Name # opt[q].Name) =>
      ENABLED (WorkflowStep(q) \/ Fatal(q) \/ Respond(q))

\* C12: when the handler of a request has finished, a response has been
\* written for it: the acknowledgement if the workflow returned nil, the
\* classified error otherwise.
C12_AsStated ==
  \A r \in Runs :
    pc[r] \in {"fatal", "done"} =>
      resp[r] = IF err[r] = NilErr THEN "ok" ELSE Kind(err[r])

\* C13: with requests served one after another on one Store, a request that
\* gets an answer from the existence check ends in HostAlreadyExists exactly
\* when an earlier run saved its name successfully; otherwise, also after
\* earlier runs for the name that failed at any step, it passes the check.
C13_ExistsOnlyAfterSuccessfulSave ==
  [][\A q \in Runs :
       (pc[q] = "exists" /\ pc'[q] # "exists" /\ calls'[q][Len(calls'[q])].ok) =>
         LET saved == \E r \in Runs \ {q} :
                        opt[r].Name = opt[q].Name /\ Succeeded(r, "Save")
         IN /\ (pc'[q] = "ret" /\ Kind(err'[q]) = "HostAlreadyExists") <=> saved
            /\ pc'[q] = "setconfig" <=> ~saved]_vars

C13_Witness ==
  \E r, q \in Runs :
    /\ r # q
    /\ opt[r].Name = opt[q].Name
    /\ pc[r] = "fatal"
    /\ Failed(r, "Save")
    /\ alive
    /\ pc[q] = "setconfig"

\* C14: in a run each of NewHost, Exists, SetConfigFromFlags, Create and
\* Save is called at most once, whatever the calls returned.
C14_NoStepRetried ==
  \A r \in Runs : \A op \in ApiOps : Count(r, op) <= 1

C14_Witness ==
  \E r \in Runs :
    /\ Returned(r)
    /\ Failed(r, "Create")
    /\ Count(r, "Create") = 1
    /\ Count(r, "Exists") = 1

C16_SuccessMeansSaved ==
  \A r \in Runs :
    /\ (Returned(r) /\ err[r] = NilErr) =>
         /\ Count(r, "Save") = 1
         /\ Succeeded(r, "Save")
         /\ StoreExists(opt[r].Name)
         /\ store[opt[r].Name].Name = opt[r].Name
    /\ resp[r] = "ok" => (err[r] = NilErr /\ Succeeded(r, "Save"))

C16_Witness ==
  \E r \in Runs :
    /\ pc[r] = "done"
    /\ resp[r] = "ok"
    /\ opt[r].Name = "dev1"
    /\ store["dev1"].Name = "dev1"
    /\ store["dev1"].DriverName = "virtualbox"

\* The operations of run r's call log, in order.
Ops(r) == [i \in 1..Len(calls[r]) |-> calls[r][i].op]

IsPrefix(a, b) == Len(a) <= Len(b) /\ \A i \in 1..Len(a) : a[i] = b[i]

\* The failure kind the outcomes of run r's steps call for.
KindByStep(r) ==
  CASE ~ValidateHostName(opt[r].Name) -> "InvalidIdentity"
    [] Failed(r, "NewHost") -> "UnknownDriver"
    [] Failed(r, "Exists") -> "StoreUnavailable"
    [] ExistsTrue(r) -> "HostAlreadyExists"
    [] Failed(r, "SetConfigFromFlags") -> "ConfigRejected"
    [] Failed(r, "Create") -> "CreationFailed"
    [] Failed(r, "Save") -> "PersistFailed"
    [] OTHER -> "Done"

\* Run r's log shows no step after its first failing one: only its last
\* Store or Driver call may have failed or found the host to exist.
FirstErrorStops(r) ==
  \A i \in 1..Len(calls[r]) :
    (calls[r][i].op # "Sleep" /\ (~calls[r][i].ok \/ calls[r][i].val)) =>
      \A j \in (i + 1)..Len(calls[r]) : calls[r][j].op = "Sleep"

\* C17: a run that has started and not returned can take its next workflow
\* step (so that it reaches a terminal state once its calls return); a run
\* that has returned carries the one failure kind of its first failing step,
\* or success, and made no Store or Driver call after that step.
C17_AsStated ==
  \A r \in Runs :
    /\ (Started(r) /\ ~Returned(r)) => ENABLED WorkflowStep(r)
    /\ Returned(r) => Kind(err[r]) = KindByStep(r)
    /\ FirstErrorStops(r)

\* C18: the calls of a run follow the order NewHost, Exists,
\* SetConfigFromFlags, Create and then Save or the grace wait; none is made
\* unless the name passed validation; the host carries the built options
\* when Exists is called; every call but the last succeeded (Exists with
\* false), save that the grace wait follows a failed Create and Save a
\* successful one.
C18_StepOrder ==
  \A r \in Runs :
    /\ \/ IsPrefix(Ops(r), <<"NewHost", "Exists", "SetConfigFromFlags", "Create", "Save">>)
       \/ IsPrefix(Ops(r), <<"NewHost", "Exists", "SetConfigFromFlags", "Create", "Sleep">>)
    /\ calls[r] # <<>> => ValidateHostName(opt[r].Name)
    /\ \A i \in 1..Len(calls[r]) :
         /\ calls[r][i].op = "Exists" => calls[r][i].h.HostOptions = HostOptions(opt[r])
         /\ i < Len(calls[r]) =>
              /\ ~calls[r][i].val
              /\ calls[r][i].ok <=> calls[r][i + 1].op # "Sleep"

C18_Witness ==
  \E r \in Runs :
    /\ Returned(r)
    /\ Ops(r) = <<"NewHost", "Exists", "SetConfigFromFlags", "Create", "Save">>
    /\ Succeeded(r, "Save")

\* C19: a run waits at most once; the wait is the call right after a failed
\* Create and the last entry of the log (Create is not called again); the
\* run has waited by the time it determines the log path and when it has
\* returned after a failed Create; a run whose Create did not fail never
\* waits.
C19_SingleGraceWait ==
  \A r \in Runs :
    /\ Count(r, "Sleep") <= 1
    /\ \A i \in 1..Len(calls[r]) :
         calls[r][i].op = "Sleep" =>
           /\ i = Len(calls[r])
           /\ i > 1
           /\ calls[r][i - 1].op = "Create"
           /\ ~calls[r][i - 1].ok
    /\ (pc[r] = "report" \/ (Returned(r) /\ Failed(r, "Create"))) =>
         (Count(r, "Sleep") = 1 /\ Count(r, "Create") = 1)
    /\ ~Failed(r, "Create") => Count(r, "Sleep") = 0
    /\ Kind(err[r]) = "CreationFailed" => Count(r, "Sleep") = 1

C19_Witness ==
  \E r \in Runs :
    /\ Returned(r)
    /\ Kind(err[r]) = "CreationFailed"
    /\ Ops(r) = <<"NewHost", "Exists", "SetConfigFromFlags", "Create", "Sleep">>

\* What the calls of run r returned, in order.
Outcomes(r) == [i \in 1..Len(calls[r]) |-> <<calls[r][i].ok, calls[r][i].val>>]

\* C20: after a failed Create the report's LogFilePath is
\* <machinesDir>/<name>/<name>/Logs/VBox.log for the "virtualbox" driver and
\* empty for every other driver; and two runs whose calls returned the same
\* outcomes made the same calls in the same order and, once returned, ended
\* in the same kind, whatever their driver names.
C20_DriverOnlyDecidesLogPath ==
  /\ \A r \in Runs :
       (Returned(r) /\ Failed(r, "Create")) =>
         err[r].LogFilePath =
           IF opt[r].DriverName = "virtualbox"
           THEN <<MachinesDir, opt[r].Name, opt[r].Name, "Logs", "VBox.log">>
           ELSE <<>>
  /\ \A r, q \in Runs :
       (Outcomes(r) = Outcomes(q) /\ calls[r] # <<>>) =>
         /\ Ops(r) = Ops(q)
         /\ (Returned(r) /\ Returned(q)) => Kind(err[r]) = Kind(err[q])

C20_Witness ==
  \E r, q \in Runs :
    /\ opt[r].DriverName = "virtualbox"
    /\ opt[q].DriverName = "amazonec2"
    /\ Returned(r) /\ Returned(q)
    /\ Failed(r, "Create") /\ Failed(q, "Create")
    /\ err[r].LogFilePath = <<"machines", "dev1", "dev1", "Logs", "VBox.log">>
    /\ err[q].LogFilePath = <<>>

====
